---- MODULE Spec2Model ----
(***************************************************************************)
(* napari-rembg: the RemBGWidget of src/napari_rembg/_widget.py.           *)
(*                                                                         *)
(* The widget lives on the interactive (Qt) thread of a napari viewer.  A  *)
(* click on "Select foreground" starts a thread_worker that runs           *)
(* _remove_background; when the worker returns, its `returned` signal is   *)
(* queued to the interactive thread, which runs _thread_returned.          *)
(*                                                                         *)
(* Arrays are records [shape, data]: shape is the numpy shape, data maps   *)
(* 0-based index tuples to values.  Axes are 0-based as in the source.     *)
(***************************************************************************)
EXTENDS Integers, Sequences, FiniteSets, TLC

VARIABLES
    vdim,          \* viewer.dims.ndim (2 or 3), fixed for a session
    layers,        \* viewer.layers: the layer names, bottom to top
    ndisplay,      \* viewer.dims.ndisplay
    order,         \* viewer.dims.order
    step,          \* viewer.dims.current_step
    roi,           \* the Shapes layer "roi": its shapes
    fg,            \* the Labels layer "Foreground mask": its data, or None
    fgsel,         \* the Labels layer's selected_label
    image_layer,   \* self.image_layer
    labels_layer,  \* self.labels_layer
    shapes_layer,  \* self.shapes_layer
    cb_image,      \* self.cb_image.currentText()
    cb_result,     \* self.cb_result.currentText()
    cb_roi,        \* self.cb_roi.currentText()
    pbar,          \* self.pbar.maximum(): 0 is indeterminate, 1 is idle
    workers,       \* the thread_workers started so far, in start order
    queue,         \* `returned` signals queued to the interactive thread
    clicks,        \* clicks on remove_background_btn so far
    events         \* actions of the user on the viewer and the panel so far

vars == <<vdim, layers, ndisplay, order, step, roi, fg, fgsel, image_layer,
          labels_layer, shapes_layer, cb_image, cb_result, cb_roi, pbar,
          workers, queue, clicks, events>>

\* None, as a layer reference.
None == "None"

\* Clicks on the button in one session.
MaxClicks == 2

\* Actions of the user on the viewer and the panel in one session.
MaxEvents == 2

\* Shapes a user draws in the Shapes layer.
MaxShapes == 2

\* Label values a user can select in the Labels layer.
MaxLabel == 2

---------------------------------------------------------------------------
\* numpy arrays

Range(n) == 0 .. (n - 1)

\* The index tuples of an array of two or three axes.
Indices(shape) ==
    IF Len(shape) = 2
    THEN {<<i, j>> : i \in Range(shape[1]), j \in Range(shape[2])}
    ELSE {<<i, j, k>> : i \in Range(shape[1]), j \in Range(shape[2]),
                        k \in Range(shape[3])}

Array(shape, data) == [shape |-> shape, data |-> data]

zeros(shape) == Array(shape, [t \in Indices(shape) |-> 0])

\* In the operators below an argument is first bound to its value
\* (x \in {x0}), so that it is computed once and not once per element.

\* a.transpose(axes): result axis k is axis axes[k] of a.
transpose(a0, ax0) ==
    CHOOSE r \in
        {LET shp == [k \in 1 .. Len(ax) |-> a.shape[ax[k] + 1]]
             src(t) == [j \in 1 .. Len(ax) |->
                          t[CHOOSE k \in 1 .. Len(ax) : ax[k] = j - 1]]
         IN  Array(shp, [t \in Indices(shp) |-> a.data[src(t)]]) :
            a \in {a0}, ax \in {ax0}} : TRUE

\* a[i]: the sub-array at index i of axis 0.
index0(a0, i0) ==
    CHOOSE r \in
        {LET shp == SubSeq(a.shape, 2, Len(a.shape))
         IN  Array(shp, [t \in Indices(shp) |-> a.data[<<i>> \o t]]) :
            a \in {a0}, i \in {i0}} : TRUE

Min(a, b) == IF a < b THEN a ELSE b

\* a[x0:x1, y0:y1]: numpy clips the slice to the array; trailing axes are kept.
crop(a0, x0, y0, x1, y1) ==
    CHOOSE r \in
        {LET r1 == Min(x1, a.shape[1])
             c1 == Min(y1, a.shape[2])
             h  == IF r1 > x0 THEN r1 - x0 ELSE 0
             w  == IF c1 > y0 THEN c1 - y0 ELSE 0
             shp == <<h, w>> \o SubSeq(a.shape, 3, Len(a.shape))
         IN  IF h = 0 \/ w = 0
             THEN [shape |-> shp, data |-> <<>>]
             ELSE Array(shp, [t \in Indices(shp) |->
                      a.data[[k \in 1 .. Len(t) |->
                                IF k = 1 THEN t[1] + x0
                                ELSE IF k = 2 THEN t[2] + y0 ELSE t[k]]]]) :
            a \in {a0}} : TRUE

\* None, as an array; also the array of a failed computation.
NoArray == [shape |-> <<>>, data |-> <<>>]

IsEmpty(a) == \E k \in 1 .. Len(a.shape) : a.shape[k] = 0

---------------------------------------------------------------------------
\* The layers a session can hold.  "vol" is a 3D image, "gray" a 2D image,
\* "rgb" a 2D image with a trailing channel axis; "roi" is a Shapes layer and
\* "Foreground mask" the Labels layer that _thread_returned creates.

VolShape  == <<2, 2, 2>>
GrayShape == <<2, 2>>
RgbShape  == <<1, 2, 3>>

Images == {"vol", "gray", "rgb"}
FG     == "Foreground mask"
ROI    == "roi"

Kind(x) == IF x \in Images THEN "Image" ELSE IF x = FG THEN "Labels" ELSE "Shapes"

\* layer.rgb
rgb(x) == x = "rgb"

\* layer.data of an image layer: every pixel holds a different value.
VolData ==
    Array(VolShape,
          [t \in Indices(VolShape) |-> 100 + 16 * t[1] + 4 * t[2] + t[3]])
GrayData ==
    Array(GrayShape, [t \in Indices(GrayShape) |-> 200 + 4 * t[1] + t[2]])
RgbData ==
    Array(RgbShape,
          [t \in Indices(RgbShape) |-> 300 + 16 * t[1] + 4 * t[2] + t[3]])

ImageData(x) == IF x = "vol" THEN VolData ELSE IF x = "gray" THEN GrayData ELSE RgbData

\* The images a viewer of vdim dimensions is given in a session.
SessionImages(d) == IF d = 3 THEN {"vol", "rgb"} ELSE {"gray", "rgb"}

\* Extents [lo, hi) along one displayed axis of the shapes a user draws:
\* one pixel, or any extent within two pixels.
Extents    == {<<0, 1>>, <<1, 2>>}
AnyExtents == {<<0, 1>>, <<1, 2>>, <<0, 2>>}

---------------------------------------------------------------------------
\* Properties of RemBGWidget.  A property that returns None returns NoArray
\* for an array, <<>> for a list and 0 for a number.

image_data == IF image_layer = None THEN NoArray ELSE ImageData(image_layer)

is_in_3d_view == ndisplay = 3

\* viewer.dims.displayed: the last ndisplay entries of dims.order.
dims_displayed ==
    IF Len(order) <= ndisplay THEN order
    ELSE SubSeq(order, Len(order) - ndisplay + 1, Len(order))

ndim_of(img) == IF rgb(img) THEN 2 ELSE Len(ImageData(img).shape)

ndim == IF image_layer = None THEN 0 ELSE ndim_of(image_layer)

SeqSet(s) == {s[k] : k \in DOMAIN s}

axes ==
    IF is_in_3d_view THEN <<>>
    ELSE IF ndim = 3
         THEN <<CHOOSE a \in {0, 1, 2} \ SeqSet(dims_displayed) : TRUE>>
              \o dims_displayed
         ELSE dims_displayed

current_step == step[axes[1] + 1]

\* In the 3D view axes is None: a 3D image is then transposed by None and
\* indexed by the whole step vector, which gives a 3D array that neither
\* branch of _remove_background can hand to PIL: the worker raises.  NoArray
\* stands for that array.
image_data_slice ==
    IF image_layer = None THEN NoArray
    ELSE IF ndim = 2 THEN image_data
    ELSE IF is_in_3d_view THEN NoArray
    ELSE index0(transpose(image_data, axes), current_step)

selected_label == IF labels_layer = None THEN 0 ELSE fgsel

---------------------------------------------------------------------------
\* _on_layer_change: the three combo boxes are cleared and refilled from
\* viewer.layers, which leaves each on its first item, and each layer
\* reference follows its combo box unless the box is empty.

FirstOf(ls, kind) ==
    IF \E k \in DOMAIN ls : Kind(ls[k]) = kind
    THEN ls[CHOOSE k \in DOMAIN ls :
                /\ Kind(ls[k]) = kind
                /\ \A j \in 1 .. (k - 1) : Kind(ls[j]) # kind]
    ELSE ""

Follow(text, ref) == IF text # "" THEN text ELSE ref

on_layer_change(ls) ==
    /\ cb_image'  = FirstOf(ls, "Image")
    /\ cb_result' = FirstOf(ls, "Labels")
    /\ cb_roi'    = FirstOf(ls, "Shapes")
    /\ image_layer'  = Follow(FirstOf(ls, "Image"), image_layer)
    /\ labels_layer' = Follow(FirstOf(ls, "Labels"), labels_layer)
    /\ shapes_layer' = Follow(FirstOf(ls, "Shapes"), shapes_layer)

\* _on_slice_change: a single rectangle in the referenced Shapes layer is
\* removed.
one_rectangle ==
    /\ shapes_layer # None
    /\ Len(roi) = 1
    /\ roi[1].type = "rectangle"

on_slice_change == roi' = IF one_rectangle THEN <<>> ELSE roi

---------------------------------------------------------------------------
\* rembg_predict: `out` is what rembg.remove gives for the image, averaged
\* over its channels (np.mean(seg, axis=2)); every nonzero value becomes 1.

Shape2(a) == SubSeq(a.shape, 1, 2)

\* Every output of rembg.remove for the image.
AllOutputs(image) ==
    {Array(Shape2(image), [t \in Indices(Shape2(image)) |-> f[t]]) :
        f \in [Indices(Shape2(image)) -> {0, 255}]}

\* Three of them: no foreground, all foreground, one pixel of foreground.
RemoveOutputs(image) ==
    LET shp == Shape2(image)
    IN  {Array(shp, [t \in Indices(shp) |-> 0]),
         Array(shp, [t \in Indices(shp) |-> 255]),
         Array(shp, [t \in Indices(shp) |->
                        IF t = <<0, shp[2] - 1>> THEN 64 ELSE 0])}

rembg_predict(out0) ==
    CHOOSE r \in
        {Array(out.shape, [t \in Indices(out.shape) |->
                              IF out.data[t] # 0 THEN 1 ELSE 0]) :
            out \in {out0}} : TRUE

\* The slip segmentation[:h, :w] = segmentation_roi_adjusted: the prediction
\* is written at the origin instead of at the box.
paste_at_origin(a0, b0, x0, y0, x1, y1) ==
    CHOOSE r \in
        {Array(a.shape, [t \in Indices(a.shape) |->
            IF t[1] < b.shape[1] /\ t[2] < b.shape[2]
            THEN b.data[<<t[1], t[2]>>]
            ELSE a.data[t]]) : a \in {a0}, b \in {b0}} : TRUE

\* segmentation[x0:x1, y0:y1] = segmentation_roi_adjusted
paste(a0, b0, x0, y0, x1, y1) ==
    CHOOSE r \in
        {Array(a.shape, [t \in Indices(a.shape) |->
            IF x0 <= t[1] /\ t[1] < x1 /\ y0 <= t[2] /\ t[2] < y1
            THEN b.data[<<t[1] - x0, t[2] - y0>>]
            ELSE a.data[t]]) : a \in {a0}, b \in {b0}} : TRUE

\* The condition of _remove_background, lines 173-176.  `&` evaluates both
\* its operands, so self.axes[0] raises TypeError in the 3D view, where axes
\* is None, once the three conditions before it hold.
roi_raises == one_rectangle /\ is_in_3d_view

roi_applies == one_rectangle /\ ~(ndim = 3 /\ axes[1] # 0)

\* regionprops_table(roi_mask)['bbox']: the lower corner, then the upper
\* (exclusive) corner, of the rasterised rectangle.  to_labels() has the
\* dimensions of the Shapes layer; for a 3D image it is transposed by axes
\* and projected along axis 0.
roi_bbox ==
    LET r == roi[1]
    IN  IF ndim = 3
        THEN <<r.lo[axes[2] + 1], r.lo[axes[3] + 1],
               r.hi[axes[2] + 1], r.hi[axes[3] + 1]>>
        ELSE r.lo \o r.hi

\* x0, y0, x1, y1: bbox-0 .. bbox-3
roi_box == SubSeq(roi_bbox, 1, 4)

---------------------------------------------------------------------------
\* Workers

NoRead == [img |-> None, axes |-> <<>>, cur |-> 0]
NoTrig == [slice |-> NoArray, box |-> <<>>, view |-> <<>>]

Finished(pc) ==
    [pc |-> pc, slice |-> NoArray, seg |-> NoArray, pred |-> NoArray,
     used_roi |-> FALSE, box |-> <<>>, rd |-> NoRead, trig |-> NoTrig]

\* What the user sees and sets in the viewer and the panel.
view == <<layers, ndisplay, order, step, roi, cb_image>>

InFlight(w) == workers[w].pc \in {"started", "sliced", "returned"}

widget == <<image_layer, labels_layer, shapes_layer, cb_image, cb_result, cb_roi>>
dims   == <<ndisplay, order, step>>

---------------------------------------------------------------------------
\* _trigger_remove_background: a click on the button.

\* The slip of leaving out the test of the 3D view.
trigger_declines_without_image == cb_image = ""

trigger_declines == is_in_3d_view \/ cb_image = ""

Trigger ==
    /\ events' = events
    /\ clicks < MaxClicks
    /\ clicks' = clicks + 1
    /\ UNCHANGED <<vdim, layers, dims, roi, fg, fgsel, labels_layer,
                   cb_image, cb_result, cb_roi, queue>>
    /\ IF trigger_declines
       THEN UNCHANGED <<image_layer, shapes_layer, pbar, workers>>
       ELSE /\ image_layer' = cb_image
            /\ shapes_layer' = IF cb_roi # "" THEN cb_roi ELSE None
            /\ pbar' = 0
            /\ workers' = Append(workers,
                 [Finished("started") EXCEPT
                    !.trig = [slice |-> image_data_slice',
                              box   |-> IF ~roi_raises' /\ roi_applies'
                                        THEN roi_box' ELSE <<>>,
                              view  |-> view']])

\* _remove_background, line 171, on the worker's thread.
WorkerSlice(w) ==
    /\ events' = events
    /\ workers[w].pc = "started"
    /\ workers' = [workers EXCEPT ![w] =
         IF image_data_slice = NoArray
         THEN Finished("errored")
         ELSE [@ EXCEPT !.pc = "sliced",
                        !.slice = image_data_slice,
                        !.rd = [img  |-> image_layer,
                                axes |-> axes,
                                cur  |-> IF ndim = 3 THEN current_step ELSE 0]]]
    /\ UNCHANGED <<vdim, layers, dims, roi, fg, fgsel, widget, pbar, queue, clicks>>

\* _remove_background, lines 173-197, on the worker's thread; the `returned`
\* signal is queued to the interactive thread.  An exception ends the worker
\* and no signal is queued.  PIL raises on an empty crop.
Segmented(w, seg, pred, used, box) ==
    /\ workers' = [workers EXCEPT ![w] =
         [@ EXCEPT !.pc = "returned", !.seg = seg, !.pred = pred,
                   !.used_roi = used, !.box = box]]
    /\ queue' = Append(queue, w)

Errored(w, used) ==
    /\ workers' = [workers EXCEPT ![w] =
         [Finished("errored") EXCEPT !.used_roi = used]]
    /\ queue' = queue

\* What rembg.remove may give for `image`: any mask, or one of three.
Outputs(image, any) == IF any THEN AllOutputs(image) ELSE RemoveOutputs(image)

WorkerSegmentWith(w, any) ==
    /\ events' = events
    /\ workers[w].pc = "sliced"
    /\ UNCHANGED <<vdim, layers, dims, roi, fg, fgsel, widget, pbar, clicks>>
    /\ LET image_data_slice_roi_adjusted == workers[w].slice
       IN  IF roi_raises THEN Errored(w, FALSE)
           ELSE IF roi_applies
           THEN LET b == roi_box
                    segmentation == zeros(Shape2(image_data_slice_roi_adjusted))
                    cropped == crop(image_data_slice_roi_adjusted,
                                    b[1], b[2], b[3], b[4])
                IN  IF IsEmpty(cropped) THEN Errored(w, TRUE)
                    ELSE \E out \in Outputs(cropped, any) :
                           LET segmentation_roi_adjusted == rembg_predict(out)
                           IN  Segmented(w,
                                   paste(segmentation, segmentation_roi_adjusted,
                                         b[1], b[2], b[3], b[4]),
                                   segmentation_roi_adjusted, TRUE, b)
           ELSE \E out \in Outputs(image_data_slice_roi_adjusted, any) :
                  Segmented(w, rembg_predict(out), rembg_predict(out), FALSE, <<>>)

WorkerSegment(w) == WorkerSegmentWith(w, FALSE)

---------------------------------------------------------------------------
\* _thread_returned, on the interactive thread.

\* zeros_like(image_data), or zeros_like(np.mean(image_data, axis=2)) for RGB
new_labels(img) ==
    IF rgb(img) THEN zeros(Shape2(ImageData(img))) ELSE zeros(ImageData(img).shape)

Prefix(t, n) == SubSeq(t, 1, n)

\* The slip data[mask] += label.
masked_add(data0, mask0, label0) ==
    CHOOSE r \in
        {LET n == Len(mask.shape)
         IN  IF n <= Len(data.shape) /\ Prefix(data.shape, n) = mask.shape
             THEN [ok |-> TRUE,
                   data |-> Array(data.shape, [t \in Indices(data.shape) |->
                      IF mask.data[Prefix(t, n)] > 0
                      THEN data.data[t] + label ELSE data.data[t]])]
             ELSE [ok |-> FALSE, data |-> data] :
            data \in {data0}, mask \in {mask0}, label \in {label0}} : TRUE

\* data[mask] = label: a boolean mask must match the leading axes of data
\* (numpy raises IndexError otherwise) and selects along them.
masked_write(data0, mask0, label0) ==
    CHOOSE r \in
        {LET n == Len(mask.shape)
         IN  IF n <= Len(data.shape) /\ Prefix(data.shape, n) = mask.shape
             THEN [ok |-> TRUE,
                   data |-> Array(data.shape, [t \in Indices(data.shape) |->
                      IF mask.data[Prefix(t, n)] > 0 THEN label ELSE data.data[t]])]
             ELSE [ok |-> FALSE, data |-> data] :
            data \in {data0}, mask \in {mask0}, label \in {label0}} : TRUE

\* data.transpose(ax)[cur][mask] = label: the write goes through the
\* transposed view into data.  transpose raises ValueError when ax does not
\* have the dimensions of data.
sliced_write(data0, mask0, ax0, cur0, label0) ==
    CHOOSE r \in
        {IF Len(data.shape) # Len(ax) THEN [ok |-> FALSE, data |-> data]
         ELSE IF \/ cur >= data.shape[ax[1] + 1]
                 \/ <<data.shape[ax[2] + 1], data.shape[ax[3] + 1]>> # mask.shape
         THEN [ok |-> FALSE, data |-> data]
         ELSE [ok |-> TRUE,
               data |-> Array(data.shape, [t \in Indices(data.shape) |->
                  IF /\ t[ax[1] + 1] = cur
                     /\ mask.data[<<t[ax[2] + 1], t[ax[3] + 1]>>] > 0
                  THEN label ELSE data.data[t]])] :
            data \in {data0}, mask \in {mask0}, ax \in {ax0}, cur \in {cur0},
            label \in {label0}} : TRUE

\* Lines 227-232.  In the 3D view axes is None: the volume is indexed by the
\* whole step vector, which gives a copy with a leading axis of length 3 that
\* no mask of the session matches, and numpy raises IndexError.
apply_mask(data, mask, nd, ax, st, label) ==
    IF nd = 2 THEN masked_write(data, mask, label)
    ELSE IF nd = 3
    THEN IF ax = <<>> THEN [ok |-> FALSE, data |-> data]
         ELSE sliced_write(data, mask, ax, st[ax[1] + 1], label)
    ELSE [ok |-> TRUE, data |-> data]

ThreadReturned ==
    /\ events' = events
    /\ queue # <<>>
    /\ UNCHANGED <<vdim, dims, roi, clicks>>
    /\ LET w == Head(queue)
           create == cb_result = ""
           base == IF create THEN new_labels(image_layer) ELSE fg
       IN  /\ IF create
              THEN /\ layers' = Append(layers, FG)
                   /\ on_layer_change(layers')
                   /\ fgsel' = 1
              ELSE /\ labels_layer' = cb_result
                   /\ UNCHANGED <<layers, fgsel, image_layer, shapes_layer,
                                  cb_image, cb_result, cb_roi>>
           /\ \E r \in {apply_mask(base, workers[w].seg, ndim', axes', step,
                                     selected_label')} :
                  /\ fg' = r.data
                  /\ pbar' = IF r.ok THEN 1 ELSE pbar
                  /\ workers' = [workers EXCEPT ![w] =
                                   Finished(IF r.ok THEN "done" ELSE "raised")]
           /\ queue' = Tail(queue)

---------------------------------------------------------------------------
\* The user and the viewer

UserActs == events < MaxEvents /\ events' = events + 1

\* The user picks another image in cb_image.
SelectImage ==
    /\ UserActs
    /\ \E x \in SeqSet(layers) :
          /\ Kind(x) = "Image"
          /\ x # cb_image
          /\ cb_image' = x
    /\ UNCHANGED <<vdim, layers, dims, roi, fg, fgsel, image_layer, labels_layer,
                   shapes_layer, cb_result, cb_roi, pbar, workers, queue, clicks>>

\* The user moves the slider of the dimension that is not displayed;
\* dims.events.current_step runs _on_slice_change.
SetStep ==
    /\ UserActs
    /\ vdim = 3 /\ ndisplay = 2
    /\ \E v \in Range(VolShape[order[1] + 1]) :
          /\ v # step[order[1] + 1]
          /\ step' = [step EXCEPT ![order[1] + 1] = v]
    /\ on_slice_change
    /\ UNCHANGED <<vdim, layers, ndisplay, order, fg, fgsel, widget, pbar,
                   workers, queue, clicks>>

\* The user rolls the dimensions: np.roll(order, 1).
RollDims ==
    /\ UserActs
    /\ vdim = 3
    /\ order' = <<order[3], order[1], order[2]>>
    /\ UNCHANGED <<vdim, layers, ndisplay, step, roi, fg, fgsel, widget, pbar,
                   workers, queue, clicks>>

\* The user toggles between the 2D and the 3D view.
ToggleNdisplay ==
    /\ UserActs
    /\ ndisplay' = IF ndisplay = 2 THEN 3 ELSE 2
    /\ UNCHANGED <<vdim, layers, order, step, roi, fg, fgsel, widget, pbar,
                   workers, queue, clicks>>

\* layers.events.inserted runs _on_layer_change.
InsertLayer ==
    /\ UserActs
    /\ \E x \in (SessionImages(vdim) \cup {ROI}) \ SeqSet(layers) :
          /\ layers' = Append(layers, x)
          /\ on_layer_change(layers')
    /\ UNCHANGED <<vdim, dims, roi, fg, fgsel, pbar, workers, queue, clicks>>

Remove(ls, x) == SelectSeq(ls, LAMBDA y : y # x)

\* layers.events.removed runs _on_layer_change.  The 3D image stays: it gives
\* the viewer its third dimension.
RemoveLayer ==
    /\ UserActs
    /\ \E x \in SeqSet(layers) \ {"vol"} :
          /\ layers' = Remove(layers, x)
          /\ on_layer_change(layers')
          /\ fg' = IF x = FG THEN NoArray ELSE fg
    /\ UNCHANGED <<vdim, dims, roi, fgsel, pbar, workers, queue, clicks>>

\* The user draws a shape in the displayed plane of the 2D view; in a 3D
\* viewer it lies at the current step of the other dimension.
Drawn(type, e1, e2) ==
    IF vdim = 2
    THEN [type |-> type, lo |-> <<e1[1], e2[1]>>, hi |-> <<e1[2], e2[2]>>]
    ELSE LET d == order[1]
             corner(k) == [a \in 1 .. 3 |->
                 IF a - 1 = d THEN step[d + 1] + (k - 1)
                 ELSE IF a - 1 = order[2] THEN e1[k] ELSE e2[k]]
         IN  [type |-> type, lo |-> corner(1), hi |-> corner(2)]

DrawShapeWith(Ext) ==
    /\ UserActs
    /\ ROI \in SeqSet(layers)
    /\ ndisplay = 2
    /\ Len(roi) < MaxShapes
    /\ \/ \E e1, e2 \in Ext : roi' = Append(roi, Drawn("rectangle", e1, e2))
       \/ roi' = Append(roi, Drawn("ellipse", <<0, 1>>, <<0, 1>>))
    /\ UNCHANGED <<vdim, layers, dims, fg, fgsel, widget, pbar, workers, queue, clicks>>

DrawShape == DrawShapeWith(Extents)

\* The user selects another label in the Labels layer.
SelectLabel ==
    /\ UserActs
    /\ FG \in SeqSet(layers)
    /\ \E v \in 1 .. MaxLabel : v # fgsel /\ fgsel' = v
    /\ UNCHANGED <<vdim, layers, dims, roi, fg, widget, pbar, workers, queue, clicks>>

---------------------------------------------------------------------------
\* __init__: the panel is opened in a viewer that shows its images in the 2D
\* view; _on_layer_change(None) fills the combo boxes.

Init ==
    /\ vdim \in {2, 3}
    /\ layers \in (IF vdim = 3
                   THEN {<<"vol">>, <<"rgb", "vol">>, <<"vol", ROI>>}
                   ELSE {<<>>, <<"gray">>, <<"gray", ROI>>})
    /\ ndisplay = 2
    /\ order = [k \in 1 .. vdim |-> k - 1]
    /\ step = [k \in 1 .. vdim |-> 0]
    /\ roi = <<>>
    /\ fg = NoArray
    /\ fgsel = 1
    /\ cb_image  = FirstOf(layers, "Image")
    /\ cb_result = FirstOf(layers, "Labels")
    /\ cb_roi    = FirstOf(layers, "Shapes")
    /\ image_layer  = Follow(FirstOf(layers, "Image"), None)
    /\ labels_layer = Follow(FirstOf(layers, "Labels"), None)
    /\ shapes_layer = Follow(FirstOf(layers, "Shapes"), None)
    /\ pbar = 1
    /\ workers = <<>>
    /\ queue = <<>>
    /\ clicks = 0
    /\ events = 0

Next ==
    \/ Trigger
    \/ \E w \in DOMAIN workers : WorkerSlice(w)
    \/ \E w \in DOMAIN workers : WorkerSegment(w)
    \/ ThreadReturned
    \/ SelectImage
    \/ SetStep
    \/ RollDims
    \/ ToggleNdisplay
    \/ InsertLayer
    \/ RemoveLayer
    \/ DrawShape
    \/ SelectLabel

Spec == Init /\ [][Next]_vars

\* The runs of the worker under every output of the predictor and every
\* rectangle, for a user who clicks when no run is in flight and meanwhile
\* selects images, adds layers, draws and rolls the dimensions.
WorkerSegmentAny(w) == WorkerSegmentWith(w, TRUE)

TriggerWhenIdle == Trigger /\ \A w \in DOMAIN workers : ~InFlight(w)

DrawShapeAny == DrawShapeWith(AnyExtents)

NextRoi ==
    \/ TriggerWhenIdle
    \/ \E w \in DOMAIN workers : WorkerSlice(w)
    \/ \E w \in DOMAIN workers : WorkerSegmentAny(w)
    \/ SelectImage
    \/ RollDims
    \/ InsertLayer
    \/ DrawShapeAny

SpecRoi == Init /\ [][NextRoi]_vars

---------------------------------------------------------------------------
\* Properties

\* A step of _thread_returned: the head of the queue is delivered.
Returning == queue # <<>> /\ queue' = Tail(queue)

\* A step of _remove_background's lines 173-197 by worker w.
Segmenting(w) ==
    /\ w \in DOMAIN workers
    /\ workers[w].pc = "sliced"
    /\ workers'[w].pc # "sliced"

\* The callback of worker w has not run.
Pending(w) == workers[w].pc \in {"started", "sliced", "returned", "errored"}

\* C1: at most one segmentation run is in flight at any time: once a click
\* has started a worker, no click starts another before the first worker's
\* _thread_returned has run.
C1_OneRunInFlight == Cardinality({w \in DOMAIN workers : InFlight(w)}) <= 1

\* C2: for a 3D image, _thread_returned writes the mask at the depth axis and
\* the depth index from which the worker read the slice, whatever the user
\* did in the viewer in between.
C2_WriteWhereRead ==
    [][(Returning /\ workers[Head(queue)].rd.img = "vol"
                  /\ workers'[Head(queue)].pc = "done"
                  /\ image_layer' = "vol")
         => /\ axes'[1] = workers[Head(queue)].rd.axes[1]
            /\ step[axes'[1] + 1] = workers[Head(queue)].rd.cur]_vars

\* C3: the worker reads only values fixed at the click: the slice and the
\* ROI box it works on are those of the state in which
\* _trigger_remove_background ran.
C3_WorkerReadsTriggerState ==
    \A w \in DOMAIN workers :
        workers[w].pc = "returned"
            => /\ workers[w].slice = workers[w].trig.slice
               /\ workers[w].box = workers[w].trig.box

\* C8: the progress bar is indeterminate exactly when some worker has been
\* started whose _thread_returned has not run, and idle otherwise.
C8_ProgressTracksRuns == (pbar = 0) <=> (\E w \in DOMAIN workers : Pending(w))

\* The shape of the label volume of an image: the image's, without the
\* channel axis of an RGB image.
LabelShape(img) ==
    IF rgb(img) THEN Shape2(ImageData(img)) ELSE ImageData(img).shape

\* C10: at every mask write in _thread_returned the label volume has the
\* shape of the image whose slice was segmented, and the write uses that
\* image's dimensionality, whether the volume is created or reused.  Stated
\* for the runs during which the user did nothing.
C10_VolumeMatchesImage ==
    [][(Returning /\ workers[Head(queue)].trig.view = view)
         => /\ fg'.shape = LabelShape(workers[Head(queue)].rd.img)
            /\ ndim' = ndim_of(workers[Head(queue)].rd.img)]_vars

Inside(t, b) == b[1] <= t[1] /\ t[1] < b[3] /\ b[2] <= t[2] /\ t[2] < b[4]

\* C4: a run that uses the ROI box (x0, y0, x1, y1) returns a mask with the
\* 2D shape of the whole slice that is 0 outside rows x0..x1-1 and columns
\* y0..y1-1 and equals, inside the box, the predictor's output on the crop.
C4_MaskZeroOutsideBox ==
    \A w \in DOMAIN workers :
        (workers[w].pc = "returned" /\ workers[w].used_roi)
            => LET r == workers[w]
               IN  /\ r.seg.shape = Shape2(r.slice)
                   /\ \A t \in Indices(r.seg.shape) :
                        r.seg.data[t] =
                            IF Inside(t, r.box)
                            THEN r.pred.data[<<t[1] - r.box[1], t[2] - r.box[2]>>]
                            ELSE 0

\* A run that used a box which leaves pixels of the slice outside, with
\* foreground predicted inside, below the first row or right of the first
\* column.
C4_Witness ==
    \E w \in DOMAIN workers :
        /\ workers[w].pc = "returned"
        /\ workers[w].used_roi
        /\ workers[w].box[1] + workers[w].box[2] > 0
        /\ \E t \in Indices(workers[w].seg.shape) : workers[w].seg.data[t] = 1
        /\ \E t \in Indices(workers[w].seg.shape) : ~Inside(t, workers[w].box)

\* The label volume that is expected after the mask of worker record r is
\* applied to `base`: the selected label where the mask is nonzero, for a 3D
\* image inside the depth slice at the current step of the dimension that is
\* not displayed, and `base` everywhere else.
Expected(base, r, label) ==
    Array(base.shape, [t \in Indices(base.shape) |->
        IF ndim_of(r.rd.img) = 2
        THEN IF r.seg.data[Prefix(t, 2)] > 0 THEN label ELSE base.data[t]
        ELSE IF /\ t[order[1] + 1] = step[order[1] + 1]
                /\ r.seg.data[<<t[order[2] + 1], t[order[3] + 1]>>] > 0
             THEN label ELSE base.data[t]])

\* C5: when nothing changed in the viewer between the click and the
\* callback, _thread_returned sets the label volume to the selected label
\* exactly where the mask is nonzero (for a 3D image inside the depth slice
\* at the current step) and leaves every other voxel unchanged.
C5_WritesMaskOnly ==
    [][(Returning /\ workers[Head(queue)].trig.view = view)
         => LET r == workers[Head(queue)]
                base == IF cb_result = "" THEN zeros(LabelShape(r.rd.img)) ELSE fg
            IN  /\ fg'.shape = LabelShape(r.rd.img)
                /\ fg' = Expected(base, r, fgsel')]_vars

\* C6: a click when no image is selected or the viewer is in the 3D view
\* starts no worker, leaves the progress bar as it is and creates or
\* modifies no label layer.
C6_DeclinedClick ==
    [][(clicks' = clicks + 1 /\ (cb_image = "" \/ ndisplay = 3))
         => UNCHANGED <<workers, queue, pbar, layers, fg, fgsel, widget>>]_vars

\* A click was declined in a viewer that holds an image: in the 3D view.
C6_Witness == vdim = 3 /\ ndisplay = 3 /\ clicks > Len(workers)

\* The image is 3D and the dimension that is not displayed is not dimension 0.
Transposed3D == ndim = 3 /\ ndisplay = 2 /\ order[1] # 0

\* C7: the worker uses the ROI if and only if the Shapes layer holds exactly
\* one shape, a rectangle, and the image is not a 3D image in transposed
\* order; in every other case it segments the whole slice and raises nothing.
C7_RoiUsedIff ==
    [][\A w \in DOMAIN workers :
         Segmenting(w)
           => /\ workers'[w].used_roi <=> (one_rectangle /\ ~Transposed3D)
              /\ ~(one_rectangle /\ ~Transposed3D)
                    => workers'[w].pc = "returned"]_vars

\* What _thread_returned would write for the head of the queue into `data`.
HeadWrite(data) ==
    apply_mask(data, workers[Head(queue)].seg, ndim, axes, step, fgsel)

\* C9: applying the same mask twice, with the same label, axes and step,
\* gives the label volume that applying it once gives.
C9_ApplyIdempotent ==
    (queue # <<>> /\ FG \in SeqSet(layers))
        => LET once == HeadWrite(fg)
           IN  once.ok => HeadWrite(once.data) = once

\* A mask with foreground is about to be applied with another label to a
\* volume that already holds a label.
C9_Witness ==
    /\ queue # <<>>
    /\ FG \in SeqSet(layers)
    /\ HeadWrite(fg).ok
    /\ \E t \in DOMAIN fg.data : fg.data[t] # 0 /\ fg.data[t] # fgsel
    /\ \E t \in DOMAIN workers[Head(queue)].seg.data :
          workers[Head(queue)].seg.data[t] > 0

====
